---- MODULE Spec2Model ----
(***************************************************************************)
(* Model of the Restaurant Matrix application.                             *)
(*                                                                         *)
(*   - the /api/places route handler GET with its in-memory CACHE          *)
(*     (a TTL cache in front of the Places text-search API), and           *)
(*   - the RestaurantMatrix client component (filter state, the derived    *)
(*     filtered list and the fetch-on-mount effect).                       *)
(*                                                                         *)
(* Optional values (undefined / absent JSON fields, absent query           *)
(* parameters) are sets with at most one element: {} is "absent".          *)
(* Strings that the code inspects character by character (names, search    *)
(* text) are sequences of one-character strings.                           *)
(***************************************************************************)
EXTENDS Integers, Sequences, FiniteSets, TLC

VARIABLES
    \* ---- server: route handler -------------------------------------
    CACHE,          \* Map<string, {t, data}>: function from cache key to entry
    now,            \* Date.now()
    nTicks,         \* number of clock advances so far (bounded)
    reqs,           \* the GET invocations so far, in arrival order
    apiCalls,       \* outbound calls to places:searchText issued so far
    errorLog,       \* console.error calls of the route handler
    hist,           \* arrival / completion events of the invocations, in order
    \* ---- client: RestaurantMatrix ------------------------------------
    initialData,    \* the prop: {} when omitted, {list} when supplied
    data, search, openNowOnly, priceRange, selectedType, loading,
    filtered,       \* the useMemo value rendered by the chart
    mounted,        \* the first render has happened
    loadPc,         \* "idle" | "pending" | "done": position of load()
    fetchCount,     \* requests issued to /api/places
    clientLog,      \* console.error calls of the component
    loadRes         \* what the request to /api/places settled with, {} before

srvVars == <<CACHE, now, nTicks, reqs, apiCalls, errorLog, hist>>
cliVars == <<initialData, data, search, openNowOnly, priceRange, selectedType,
             loading, filtered, mounted, loadPc, fetchCount, clientLog, loadRes>>
vars == <<srvVars, cliVars>>

(***************************************************************************)
(* Bounds of the model.                                                    *)
(***************************************************************************)
MaxReqs == 2        \* GET invocations in a behaviour of the cache model
MaxTicks == 2       \* clock advances in a behaviour
MaxRawLen == 2      \* records in an upstream response (normalizer model)
MaxDataLen == 2     \* places in a list held by the view

(***************************************************************************)
(* Generic helpers.                                                        *)
(***************************************************************************)
\* x ?? d on an optional value
Coalesce(opt, d) == IF opt = {} THEN d ELSE CHOOSE x \in opt : TRUE

\* all sequences over S of length at most n
SeqsUpTo(S, n) == UNION {[1..k -> S] : k \in 0..n}

(***************************************************************************)
(* JavaScript numbers as far as the handler meets them: finite integers,   *)
(* NaN and the two infinities.                                             *)
(***************************************************************************)
Num(n) == [k |-> "num", v |-> n]
NaN == [k |-> "nan", v |-> 0]
PosInf == [k |-> "inf", v |-> 1]
NegInf == [k |-> "inf", v |-> -1]

\* a <= b in IEEE-754: false whenever an operand is NaN
NumLe(a, b) ==
    IF a.k = "nan" \/ b.k = "nan" THEN FALSE
    ELSE IF a.k = "inf" THEN a.v = -1 \/ (b.k = "inf" /\ b.v = 1)
    ELSE IF b.k = "inf" THEN b.v = 1
    ELSE a.v <= b.v

\* a < b in IEEE-754
NumLt(a, b) == NumLe(a, b) /\ a # b

\* Number(s) for the query-string values the model sends
Number(s) ==
    CASE s = "" -> Num(0)
      [] s = "0" -> Num(0)
      [] s = "1" -> Num(1)
      [] s = "2" -> Num(2)
      [] s = "3" -> Num(3)
      [] s = "4" -> Num(4)
      [] s = "Infinity" -> PosInf
      [] s = "-Infinity" -> NegInf
      [] OTHER -> NaN

\* JSON.stringify of a number: non-finite numbers are written as null
JsonNumber(x) == IF x.k = "num" THEN x ELSE [k |-> "null", v |-> 0]

(***************************************************************************)
(* Route handler: constants and the records it handles.                    *)
(***************************************************************************)
\* Time-to-live in milliseconds (12 hours)
TTL == 1000 * 60 * 60 * 12

PRICE_LEVELS == {0, 1, 2, 3, 4}

DefaultQ == "restaurants in Boston, MA"

\* p.displayName?.text ?? "Unknown"
Unknown == <<"U", "n", "k", "n", "o", "w", "n">>

\* A record of the upstream PlaceResponse; every field but id / placeId is
\* optional.  openNow stands for currentOpeningHours?.openNow.
RawPlace(id, name, rating, count, price, types, open, status) ==
    [id |-> id, placeId |-> id, displayName |-> name, rating |-> rating,
     userRatingCount |-> count, priceLevel |-> price, types |-> types,
     openNow |-> open, businessStatus |-> status]

\* .filter((p) => p.businessStatus === "OPERATIONAL")
IsOperational(p) == p.businessStatus = {"OPERATIONAL"}

\* PriceLevelOf without the range check: only a missing level becomes 0
PriceLevelUnchecked(p) == Coalesce(p.priceLevel, 0)

\* PRICE_LEVELS.includes(p.priceLevel) ? p.priceLevel : 0
PriceLevelOf(p) ==
    IF p.priceLevel # {} /\ Coalesce(p.priceLevel, 0) \in PRICE_LEVELS
    THEN Coalesce(p.priceLevel, 0)
    ELSE 0

\* .map((p) => ({ id, place_id, name, rating, ... }))
ToPlace(p) ==
    [id |-> p.id,
     place_id |-> {p.placeId},
     name |-> Coalesce(p.displayName, Unknown),
     rating |-> Coalesce(p.rating, 0),
     user_ratings_total |-> Coalesce(p.userRatingCount, 0),
     price_level |-> PriceLevelOf(p),
     types |-> Coalesce(p.types, <<>>),
     open_now |-> p.openNow]

\* PriceInRange with the upper bound exclusive
PriceBelowMax(p, minPrice, maxPrice) ==
    NumLe(minPrice, Num(p.price_level)) /\ NumLt(Num(p.price_level), maxPrice)

\* .filter((p) => p.price_level >= minPrice && p.price_level <= maxPrice)
PriceInRange(p, minPrice, maxPrice) ==
    NumLe(minPrice, Num(p.price_level)) /\ NumLe(Num(p.price_level), maxPrice)

\* .filter((p) => { if (openNow) return p.open_now !== false; return true; })
OpenNowKeep(p, openNow) == IF openNow THEN p.open_now # {FALSE} ELSE TRUE

\* const mapped = (json.places ?? []).filter(..).map(..).filter(..).filter(..)
\* (Array.prototype.filter is SelectSeq: the order-preserving sub-list)
Mapped(json, openNow, minPrice, maxPrice) ==
    LET operating == SelectSeq(Coalesce(json.places, <<>>), LAMBDA p : IsOperational(p))
        places == [n \in 1..Len(operating) |-> ToPlace(operating[n])]
        priced == SelectSeq(places, LAMBDA p : PriceInRange(p, minPrice, maxPrice))
    IN  SelectSeq(priced, LAMBDA p : OpenNowKeep(p, openNow))

(***************************************************************************)
(* Request parsing and the cache key.                                      *)
(***************************************************************************)
\* the query string of a request: each parameter absent ({}) or a string
Query(q, openNow, minPrice, maxPrice, type) ==
    [q |-> q, openNow |-> openNow, minPrice |-> minPrice, maxPrice |-> maxPrice,
     type |-> type]

\* the five values GET reads off searchParams
ParseParams(query) ==
    [q |-> Coalesce(query.q, DefaultQ),
     openNow |-> (query.openNow = {"true"}),
     minPrice |-> Number(Coalesce(query.minPrice, "0")),
     maxPrice |-> Number(Coalesce(query.maxPrice, "4")),
     type |-> Coalesce(query.type, "")]

\* JSON.stringify({ q, openNow, minPrice, maxPrice, type })
CacheKey(p) ==
    [q |-> p.q, openNow |-> p.openNow, minPrice |-> JsonNumber(p.minPrice),
     maxPrice |-> JsonNumber(p.maxPrice), type |-> p.type]

\* IsFresh with the entry still served at an age of exactly TTL
IsFreshInclusive(cached, t) == cached # {} /\ t - Coalesce(cached, [t |-> 0]).t <= TTL

\* cached && Date.now() - cached.t < TTL
IsFresh(cached, t) == cached # {} /\ t - Coalesce(cached, [t |-> 0]).t < TTL

\* CACHE.get(key)
CacheGet(cache, key) == IF key \in DOMAIN cache THEN {cache[key]} ELSE {}

\* CacheSet that keeps an entry already stored under the key
CacheSetIfAbsent(cache, key, entry) ==
    [k \in DOMAIN cache \cup {key} |-> IF k \in DOMAIN cache THEN cache[k] ELSE entry]

\* CACHE.set(key, entry)
CacheSet(cache, key, entry) ==
    [k \in DOMAIN cache \cup {key} |-> IF k = key THEN entry ELSE cache[k]]

\* the status of the answer to a non-success upstream response
ErrorStatus == 500

\* JsonResponse with the { status } option dropped: every answer is a 200
JsonResponseOk(status, body) == [kind |-> "json", status |-> 200, body |-> body]

\* NextResponse.json(body, { status })
JsonResponse(status, body) == [kind |-> "json", status |-> status, body |-> body]

\* the handler has not answered yet / its promise rejected
NoResponse == [kind |-> "none", status |-> 0, body |-> [none |-> TRUE]]
Threw == [kind |-> "threw", status |-> 0, body |-> [none |-> TRUE]]

(***************************************************************************)
(* What the outbound fetch can come back with.                             *)
(***************************************************************************)
\* a response with res.ok and a JSON body { places? }
UpstreamOk(places) ==
    [kind |-> "response", ok |-> TRUE, json |-> [places |-> places], text |-> ""]
\* a response with !res.ok and a raw body
UpstreamNotOk(text) ==
    [kind |-> "response", ok |-> FALSE, json |-> [places |-> {}], text |-> text]
\* the fetch promise rejects (DNS, connection reset, ...)
UpstreamReject ==
    [kind |-> "reject", ok |-> FALSE, json |-> [places |-> {}], text |-> ""]

(***************************************************************************)
(* GET, first part: from the call up to the await of the outbound fetch.   *)
(* A cache hit answers at once; a miss issues the outbound call.           *)
(***************************************************************************)
GETArrive(queries, maxReqs) ==
    /\ Len(reqs) < maxReqs
    /\ \E query \in queries :
         LET p == ParseParams(query)
             cacheKey == CacheKey(p)
             cached == CacheGet(CACHE, cacheKey)
             base == [query |-> query, params |-> p, cacheKey |-> cacheKey,
                      res |-> {}, wroteAt |-> {}]
         IN  IF IsFresh(cached, now)
             THEN /\ reqs' = Append(reqs, base @@
                       [pc |-> "done", calls |-> 0,
                        resp |-> JsonResponse(200, [places |-> Coalesce(cached, [data |-> <<>>]).data])])
                  /\ apiCalls' = apiCalls
             ELSE /\ reqs' = Append(reqs, base @@
                       [pc |-> "fetch", calls |-> 1, resp |-> NoResponse])
                  /\ apiCalls' = apiCalls + 1
    /\ hist' = Append(hist, [ev |-> "arrive", i |-> Len(reqs) + 1])
    /\ UNCHANGED <<CACHE, now, nTicks, errorLog>>
    /\ UNCHANGED cliVars

(***************************************************************************)
(* GET, second part: the outbound fetch settles and the handler runs to    *)
(* its end.                                                                *)
(***************************************************************************)
GETResume(results) ==
    \E i \in 1..Len(reqs), res \in results :
      /\ reqs[i].pc = "fetch"
      /\ LET r == reqs[i]
             finish(resp) == [reqs EXCEPT ![i] = [r EXCEPT !.pc = "done", !.resp = resp,
                                                            !.res = {res}]]
         IN  IF res.kind = "reject"
             THEN \* await fetch(...) throws; nothing catches it
                  /\ reqs' = finish(Threw)
                  /\ UNCHANGED <<CACHE, errorLog>>
             ELSE IF ~res.ok
             THEN /\ errorLog' = Append(errorLog, res.text)
                  /\ reqs' = finish(JsonResponse(ErrorStatus, [error |-> res.text]))
                  /\ UNCHANGED CACHE
             ELSE LET mapped == Mapped(res.json, r.params.openNow, r.params.minPrice,
                                       r.params.maxPrice)
                  IN  /\ CACHE' = CacheSet(CACHE, r.cacheKey, [t |-> now, data |-> mapped])
                      /\ reqs' = [finish(JsonResponse(200, [places |-> mapped]))
                                     EXCEPT ![i].wroteAt = {now}]
                      /\ UNCHANGED errorLog
      /\ hist' = Append(hist, [ev |-> "done", i |-> i])
      /\ UNCHANGED <<now, nTicks, apiCalls>>
      /\ UNCHANGED cliVars

\* the wall clock advances
Tick ==
    /\ nTicks < MaxTicks
    /\ \E d \in {1, TTL - 1} : now' = now + d
    /\ nTicks' = nTicks + 1
    /\ UNCHANGED <<CACHE, reqs, apiCalls, errorLog, hist>>
    /\ UNCHANGED cliVars

(***************************************************************************)
(* Inputs: upstream records, upstream responses and query strings.         *)
(***************************************************************************)
\* operating, every field present, open now
RecOpen == RawPlace("p1", {<<"A", "b">>}, {4}, {10}, {2}, {<<"sushi">>}, {TRUE}, {"OPERATIONAL"})
\* not operating
RecClosedDown == RawPlace("p2", {<<"b", "a">>}, {5}, {3}, {1}, {<<"bar", "sushi">>}, {TRUE}, {"CLOSED_TEMPORARILY"})
\* operating, optional fields missing, price level out of range, closed now
RecBare == RawPlace("p3", {}, {}, {}, {7}, {}, {FALSE}, {"OPERATIONAL"})
\* operating, upper price bound of the scenario, opening hours unknown
RecUnknownHours == RawPlace("p4", {<<"a">>}, {3}, {0}, {3}, {<<"bar">>}, {}, {"OPERATIONAL"})
\* operating, a rating and a review count below zero
RecNegative == RawPlace("p5", {<<"b">>}, {-1}, {-3}, {4}, {<<>>}, {}, {"OPERATIONAL"})
\* no businessStatus at all
RecNoStatus == RawPlace("p6", {<<"A">>}, {4}, {7}, {}, {<<"sushi">>}, {TRUE}, {})

RawRecords == {RecOpen, RecClosedDown, RecBare, RecUnknownHours, RecNegative, RecNoStatus}

\* upstream answers of the normalizer model: every list up to MaxRawLen,
\* a body without places, a non-success response, a rejected fetch
NormResults ==
    {UpstreamOk({l}) : l \in SeqsUpTo(RawRecords, MaxRawLen)}
        \cup {UpstreamOk({}), UpstreamNotOk("PERMISSION_DENIED"), UpstreamReject}

\* query strings of the normalizer model
NormQueries ==
    {Query({}, o, lo, hi, {}) :
        o \in {{}, {"true"}, {"false"}},
        lo \in {{}, {"1"}, {"abc"}, {"-Infinity"}},
        hi \in {{}, {"3"}, {"Infinity"}}}
      \cup {Query({"sushi"}, {"true"}, {"1"}, {"3"}, {"restaurant"})}

\* upstream answers of the cache model
ListA == <<RecOpen, RecClosedDown, RecBare, RecUnknownHours>>
ListB == <<RecNegative>>
CacheResults ==
    {UpstreamOk({ListA}), UpstreamOk({ListB}), UpstreamNotOk("PERMISSION_DENIED"),
     UpstreamReject}

\* query strings of the cache model
CacheQueries ==
    {Query({}, {}, {}, {}, {}),
     Query({}, {}, {""}, {}, {}),
     Query({}, {}, {"abc"}, {}, {}),
     Query({}, {}, {"-Infinity"}, {}, {})}

(***************************************************************************)
(* Specifications of the route handler.                                    *)
(***************************************************************************)
ServerInit ==
    /\ CACHE = [k \in {} |-> [t |-> 0, data |-> <<>>]]
    /\ now = 0
    /\ nTicks = 0
    /\ reqs = <<>>
    /\ apiCalls = 0
    /\ errorLog = <<>>
    /\ hist = <<>>

\* the component is not on screen
ClientIdle ==
    /\ initialData = {}
    /\ data = <<>>
    /\ search = <<>>
    /\ openNowOnly = FALSE
    /\ priceRange = <<Num(0), Num(4)>>
    /\ selectedType = ""
    /\ loading = FALSE
    /\ filtered = <<>>
    /\ mounted = FALSE
    /\ loadPc = "idle"
    /\ fetchCount = 0
    /\ clientLog = 0
    /\ loadRes = {}

Init == ServerInit /\ ClientIdle

\* the cache model: concurrent invocations over a few keys
Next ==
    \/ GETArrive(CacheQueries, MaxReqs)
    \/ GETResume(CacheResults)
    \/ Tick

Spec == Init /\ [][Next]_vars

\* the normalizer model: one invocation, every input
NextNorm ==
    \/ GETArrive(NormQueries, 1)
    \/ GETResume(NormResults)
    \/ Tick

SpecNorm == Init /\ [][NextNorm]_vars

(***************************************************************************)
(* RestaurantMatrix: string helpers.                                       *)
(***************************************************************************)
\* String.prototype.toLowerCase on the characters the model uses
LowerChar(c) ==
    CASE c = "A" -> "a"
      [] c = "B" -> "b"
      [] c = "U" -> "u"
      [] OTHER -> c

ToLowerCase(str) == [i \in 1..Len(str) |-> LowerChar(str[i])]

\* String.prototype.includes
StrIncludes(str, sub) ==
    \E i \in 0..(Len(str) - Len(sub)) : SubSeq(str, i + 1, i + Len(sub)) = sub

\* Array.prototype.includes
ArrIncludes(arr, x) == \E i \in 1..Len(arr) : arr[i] = x

(***************************************************************************)
(* RestaurantMatrix: derived values.                                       *)
(***************************************************************************)
\* Matches with the open-now rule demanding an explicit true
MatchesOpenOnly(p, s, onlyOpen, range, type) ==
    IF s # <<>> /\ ~StrIncludes(ToLowerCase(p.name), ToLowerCase(s)) THEN FALSE
    ELSE IF onlyOpen /\ p.open_now # {TRUE} THEN FALSE
    ELSE IF NumLt(Num(p.price_level), range[1]) \/ NumLt(range[2], Num(p.price_level))
         THEN FALSE
    ELSE IF type # "" /\ ~ArrIncludes(p.types, type) THEN FALSE
    ELSE TRUE

\* the callback of data.filter in the `filtered` memo
Matches(p, s, onlyOpen, range, type) ==
    IF s # <<>> /\ ~StrIncludes(ToLowerCase(p.name), ToLowerCase(s)) THEN FALSE
    ELSE IF onlyOpen /\ p.open_now = {FALSE} THEN FALSE
    ELSE IF NumLt(Num(p.price_level), range[1]) \/ NumLt(range[2], Num(p.price_level))
         THEN FALSE
    ELSE IF type # "" /\ ~ArrIncludes(p.types, type) THEN FALSE
    ELSE TRUE

\* the dependency array of the `filtered` memo
FilteredDeps == <<data, search, openNowOnly, priceRange, selectedType>>

\* the value the `filtered` memo computes
ComputeFiltered(d, s, onlyOpen, range, type) ==
    SelectSeq(d, LAMBDA p : Matches(p, s, onlyOpen, range, type))

\* the members of availableTypes (the order of the options is not modelled)
AvailableTypes(d) ==
    UNION {{d[i].types[j] : j \in 1..Len(d[i].types)} : i \in 1..Len(d)}

\* EffectDeps with the filter state and the data listed as dependencies
EffectDepsAll == <<initialData, data, search, openNowOnly, priceRange, selectedType>>

\* the dependency array of the fetch effect
EffectDeps == <<initialData>>

\* A render after a state change: the memo is recomputed when one of its
\* dependencies changed, the effect runs again when one of its changed.
\* load() sets loading and issues the request before its first await.
\* isLoading and pc are the values of loading and loadPc the render starts from.
Render(isLoading, pc) ==
    /\ filtered' = IF FilteredDeps' # FilteredDeps
                   THEN ComputeFiltered(data', search', openNowOnly', priceRange', selectedType')
                   ELSE filtered
    /\ IF EffectDeps' # EffectDeps /\ initialData' = {}
       THEN /\ loading' = TRUE
            /\ fetchCount' = fetchCount + 1
            /\ loadPc' = "pending"
       ELSE /\ loading' = isLoading
            /\ loadPc' = pc
            /\ UNCHANGED fetchCount

(***************************************************************************)
(* RestaurantMatrix: what fetch("/api/places") can settle with.            *)
(***************************************************************************)
\* a response whose body parses as JSON
HttpJson(status, body) == [kind |-> "json", status |-> status, body |-> body]
\* a response whose body is not JSON: res.json() rejects
HttpNotJson(status) == [kind |-> "notjson", status |-> status, body |-> [none |-> TRUE]]
\* fetch itself rejects
NetworkError == [kind |-> "reject", status |-> 0, body |-> [none |-> TRUE]]

\* json.places ?? []
PlacesOf(body) == IF "places" \in DOMAIN body THEN body.places ELSE <<>>

(***************************************************************************)
(* RestaurantMatrix: actions.                                              *)
(***************************************************************************)
\* the effect after the first render
Mount ==
    /\ ~mounted
    /\ mounted' = TRUE
    /\ IF initialData # {}
       THEN UNCHANGED <<loading, fetchCount, loadPc>>
       ELSE /\ loading' = TRUE
            /\ fetchCount' = fetchCount + 1
            /\ loadPc' = "pending"
    /\ UNCHANGED <<initialData, data, search, openNowOnly, priceRange, selectedType,
                   filtered, clientLog, loadRes>>
    /\ UNCHANGED srvVars

\* the rest of load(): the request settles, try / catch / finally
LoadSettle(results) ==
    /\ loadPc = "pending"
    /\ \E res \in results :
         /\ loadRes' = {res}
         /\ IF res.kind = "json"
            THEN /\ data' = PlacesOf(res.body)
                 /\ UNCHANGED clientLog
            ELSE /\ clientLog' = clientLog + 1
                 /\ UNCHANGED data
    /\ UNCHANGED <<initialData, search, openNowOnly, priceRange, selectedType, mounted>>
    /\ Render(FALSE, "done")
    /\ UNCHANGED srvVars

\* onChange of the search input
SetSearch(texts) ==
    /\ mounted
    /\ \E s \in texts : search' = s
    /\ UNCHANGED <<initialData, data, openNowOnly, priceRange, selectedType, mounted,
                   clientLog, loadRes>>
    /\ Render(loading, loadPc)
    /\ UNCHANGED srvVars

\* onChange of the open-now checkbox
SetOpenNowOnly ==
    /\ mounted
    /\ \E b \in BOOLEAN : openNowOnly' = b
    /\ UNCHANGED <<initialData, data, search, priceRange, selectedType, mounted,
                   clientLog, loadRes>>
    /\ Render(loading, loadPc)
    /\ UNCHANGED srvVars

\* onChange of the two number inputs
SetPriceRange(values) ==
    /\ mounted
    /\ \E v \in values :
         \/ priceRange' = <<Number(v), priceRange[2]>>
         \/ priceRange' = <<priceRange[1], Number(v)>>
    /\ UNCHANGED <<initialData, data, search, openNowOnly, selectedType, mounted,
                   clientLog, loadRes>>
    /\ Render(loading, loadPc)
    /\ UNCHANGED srvVars

\* onChange of the type select: "" (All) or one of availableTypes
SetSelectedType ==
    /\ mounted
    /\ \E t \in {""} \cup AvailableTypes(data) : selectedType' = t
    /\ UNCHANGED <<initialData, data, search, openNowOnly, priceRange, mounted,
                   clientLog, loadRes>>
    /\ Render(loading, loadPc)
    /\ UNCHANGED srvVars

(***************************************************************************)
(* Inputs and specification of the view.                                   *)
(***************************************************************************)
\* the places the route handler makes of the upstream records
ViewPlaces == {ToPlace(r) : r \in {x \in RawRecords : IsOperational(x)}}

ViewLists == SeqsUpTo(ViewPlaces, MaxDataLen)

ViewResults ==
    {HttpJson(200, [places |-> l]) : l \in ViewLists}
        \cup {HttpJson(500, [error |-> "PERMISSION_DENIED"]), HttpNotJson(500), NetworkError}

ViewSearches == {<<>>, <<"a">>, <<"A", "B">>, <<"b", "A">>}

ViewPriceInputs == {"", "1", "3", "4"}

\* the server does not take part
ServerIdle == ServerInit

InitView ==
    /\ ServerIdle
    /\ initialData \in {{}} \cup {{l} : l \in ViewLists}
    /\ data = Coalesce(initialData, <<>>)
    /\ search = <<>>
    /\ openNowOnly = FALSE
    /\ priceRange = <<Num(0), Num(4)>>
    /\ selectedType = ""
    /\ loading = FALSE
    /\ filtered = ComputeFiltered(data, search, openNowOnly, priceRange, selectedType)
    /\ mounted = FALSE
    /\ loadPc = "idle"
    /\ fetchCount = 0
    /\ clientLog = 0
    /\ loadRes = {}

NextView ==
    \/ Mount
    \/ LoadSettle(ViewResults)
    \/ SetSearch(ViewSearches)
    \/ SetOpenNowOnly
    \/ SetPriceRange(ViewPriceInputs)
    \/ SetSelectedType

SpecView == InitView /\ [][NextView]_vars

(***************************************************************************)
(* Properties of the route handler (cache model, Spec).                    *)
(***************************************************************************)
\* the invocations that have answered / that went to the external API
Done == {i \in 1..Len(reqs) : reqs[i].pc = "done"}
Misses == {i \in 1..Len(reqs) : reqs[i].calls > 0}

\* the step is the arrival of a request
IsArrival == Len(reqs') = Len(reqs) + 1

\* an entry for key k is stored and younger than TTL
HasLiveEntry(k) == k \in DOMAIN CACHE /\ now - CACHE[k].t < TTL

\* C1: a request that arrives while an entry for its key is stored with
\* now - t < TTL makes no external call and returns the stored list; one that
\* arrives with no entry, or an entry of age >= TTL, makes exactly one
\* external call; no other step makes an external call.
C1_TtlCache ==
    [][IF IsArrival
       THEN LET r == reqs'[Len(reqs')]
            IN  IF HasLiveEntry(r.cacheKey)
                THEN /\ apiCalls' = apiCalls
                     /\ r.calls = 0
                     /\ r.resp = [kind |-> "json", status |-> 200,
                                  body |-> [places |-> CACHE[r.cacheKey].data]]
                ELSE /\ apiCalls' = apiCalls + 1
                     /\ r.calls = 1
                     /\ r.resp.kind = "none"
       ELSE /\ apiCalls' = apiCalls
            /\ \A i \in 1..Len(reqs) : reqs'[i].calls = reqs[i].calls]_vars

\* C1 witness: two requests with one key; the first went to the external API
\* and stored its list, the second was served that list TTL - 1 ms later
\* without a call
C1_Witness ==
    /\ Len(reqs) = 2
    /\ reqs[1].cacheKey = reqs[2].cacheKey
    /\ reqs[1].calls = 1 /\ reqs[1].wroteAt = {0}
    /\ reqs[2].calls = 0 /\ reqs[2].pc = "done"
    /\ now = TTL - 1
    /\ reqs[2].resp.body = reqs[1].resp.body
    /\ apiCalls = 1

\* the upstream answered invocation i with a non-success response
GotNotOk(i) ==
    reqs[i].res # {} /\ \A u \in reqs[i].res : u.kind = "response" /\ ~u.ok

\* C2: on a non-success upstream response the handler has made exactly one
\* outbound call, answers non-2xx with a body that has an error field holding
\* the raw upstream body and no places field, and the step leaves CACHE as it
\* was.
C2_UpstreamFailure ==
    /\ [](\A i \in Done : GotNotOk(i) =>
            /\ reqs[i].calls = 1
            /\ reqs[i].resp.kind = "json"
            /\ reqs[i].resp.status \notin 200..299
            /\ DOMAIN reqs[i].resp.body = {"error"}
            /\ \A u \in reqs[i].res : reqs[i].resp.body.error = u.text
            /\ reqs[i].wroteAt = {})
    /\ [][(\E i \in 1..Len(reqs) : reqs[i].pc = "fetch" /\ reqs'[i].pc = "done"
                                    /\ reqs'[i].resp.kind = "json"
                                    /\ "error" \in DOMAIN reqs'[i].resp.body)
            => (CACHE' = CACHE /\ apiCalls' = apiCalls)]_vars

\* C2 witness: a stored entry survives a failed refresh of the same key: the
\* first request stored its list, the second one missed after TTL and got a
\* non-success upstream response
C2_Witness ==
    /\ Len(reqs) = 2
    /\ reqs[1].cacheKey = reqs[2].cacheKey
    /\ reqs[1].wroteAt = {0}
    /\ 2 \in Done /\ GotNotOk(2)
    /\ reqs[2].resp.body.error = "PERMISSION_DENIED"
    /\ CACHE[reqs[2].cacheKey] = [t |-> 0, data |-> reqs[1].resp.body.places]
    /\ apiCalls = 2

\* the outbound fetch of invocation i rejected
GotReject(i) == reqs[i].res # {} /\ \A u \in reqs[i].res : u.kind = "reject"

\* C3: a transport failure of the outbound call ends like a non-success
\* response: a non-2xx JSON answer with an error field, one call, no cache
\* write.
C3_TransportFailure ==
    \A i \in Done : GotReject(i) =>
        /\ reqs[i].calls = 1
        /\ reqs[i].resp.kind = "json"
        /\ reqs[i].resp.status \notin 200..299
        /\ "error" \in DOMAIN reqs[i].resp.body
        /\ reqs[i].wroteAt = {}

\* positions of hist, and the successful writes among them
Writes(k) ==
    {n \in 1..Len(hist) : /\ hist[n].ev = "done"
                          /\ reqs[hist[n].i].cacheKey = k
                          /\ reqs[hist[n].i].wroteAt # {}}
LastWriteBefore(k, n) ==
    LET ws == {m \in Writes(k) : m < n}
    IN  IF ws = {} THEN 0 ELSE CHOOSE m \in ws : \A x \in ws : x <= m
ArrivalOf(j) == CHOOSE n \in 1..Len(hist) : hist[n] = [ev |-> "arrive", i |-> j]

C10_KeySoundness ==
    \A i, j \in 1..Len(reqs) :
        (reqs[i].cacheKey = reqs[j].cacheKey) <=> (reqs[i].params = reqs[j].params)

(***************************************************************************)
(* Properties of the normalizer (normalizer model, SpecNorm).              *)
(***************************************************************************)
\* the upstream answered invocation i with a success response
GotOk(i) == reqs[i].res # {} /\ \A u \in reqs[i].res : u.kind = "response" /\ u.ok

\* the raw record list of that response ([] when the body has no places)
RawListOf(i) ==
    LET u == CHOOSE x \in reqs[i].res : TRUE
    IN  IF u.json.places = {} THEN <<>> ELSE CHOOSE l \in u.json.places : TRUE

\* the price tier a raw record normalizes to
TierOf(raw) == IF \E n \in 0..4 : raw.priceLevel = {n}
               THEN CHOOSE n \in 0..4 : raw.priceLevel = {n}
               ELSE 0

\* lo <= n and n <= hi for an integer n and request bounds that may be NaN
\* or infinite
AtLeast(n, lo) == (lo.k = "num" /\ lo.v <= n) \/ lo = NegInf
AtMost(n, hi) == (hi.k = "num" /\ n <= hi.v) \/ hi = PosInf

\* the records the claim keeps
ShouldKeep(raw, p) ==
    /\ raw.businessStatus = {"OPERATIONAL"}
    /\ AtLeast(TierOf(raw), p.minPrice)
    /\ AtMost(TierOf(raw), p.maxPrice)
    /\ (p.openNow => raw.openNow # {FALSE})

\* the normalized kept records of raw[n..], in upstream order
RECURSIVE ExpectedFrom(_, _, _)
ExpectedFrom(raw, n, p) ==
    IF n > Len(raw) THEN <<>>
    ELSE (IF ShouldKeep(raw[n], p) THEN <<ToPlace(raw[n])>> ELSE <<>>)
            \o ExpectedFrom(raw, n + 1, p)

PlacesOut ==
    UNION {{reqs[i].resp.body.places[n] : n \in 1..Len(reqs[i].resp.body.places)}
              : i \in {j \in Done : "places" \in DOMAIN reqs[j].resp.body}}
      \cup UNION {{CACHE[k].data[n] : n \in 1..Len(CACHE[k].data)} : k \in DOMAIN CACHE}

\* the raw records the upstream has sent
RawIn == UNION {{RawListOf(i)[n] : n \in 1..Len(RawListOf(i))} : i \in {j \in Done : GotOk(j)}}

\* C5 as stated: every place answered or stored has a price tier in 0..4, a
\* non-negative rating and a non-negative review count, whatever the
\* upstream returned.
C5_PlaceInvariants ==
    \A p \in PlacesOut :
        /\ p.price_level \in 0..4
        /\ p.rating >= 0
        /\ p.user_ratings_total >= 0

\* C5 amended: the price tier is in 0..4 whatever the upstream returned (out
\* of range or missing becomes 0); rating and review count are the upstream's
\* values, 0 when missing, hence non-negative whenever the upstream's value
\* is missing or non-negative.
C5_PlaceInvariantsAmended ==
    \A p \in PlacesOut :
        /\ p.price_level \in 0..4
        /\ \E raw \in RawIn :
             /\ raw.id = p.id
             /\ p.price_level = (IF raw.priceLevel \subseteq 0..4 THEN Coalesce(raw.priceLevel, 0) ELSE 0)
             /\ p.rating = Coalesce(raw.rating, 0)
             /\ p.user_ratings_total = Coalesce(raw.userRatingCount, 0)
             /\ ((\A x \in raw.rating : x >= 0) => p.rating >= 0)
             /\ ((\A x \in raw.userRatingCount : x >= 0) => p.user_ratings_total >= 0)

\* C5 witness: a record without rating and review count and with price level
\* 7 was answered and stored as rating 0, review count 0, price tier 0
C5_Witness ==
    /\ 1 \in Done /\ GotOk(1)
    /\ RawListOf(1) = <<RecBare>>
    /\ RecBare.rating = {} /\ RecBare.userRatingCount = {} /\ RecBare.priceLevel = {7}
    /\ Len(reqs[1].resp.body.places) = 1
    /\ reqs[1].resp.body.places[1].rating = 0
    /\ reqs[1].resp.body.places[1].user_ratings_total = 0
    /\ reqs[1].resp.body.places[1].price_level = 0
    /\ CACHE[reqs[1].cacheKey].data = reqs[1].resp.body.places

(***************************************************************************)
(* Properties of the view (SpecView).                                      *)
(***************************************************************************)
\* name contains the search text, ignoring case: some stretch of the name
\* equals the text once both are lower-cased
NameContains(name, text) ==
    \E a \in 1..(Len(name) + 1), b \in 0..Len(name) :
        /\ b - a + 1 = Len(text)
        /\ \A n \in 1..Len(text) : LowerChar(name[a + n - 1]) = LowerChar(text[n])

\* the four rules of the claim, all at once
PassesAll(p) ==
    /\ NameContains(p.name, search)
    /\ (openNowOnly => p.open_now \in {{}, {TRUE}})
    /\ priceRange[1].v <= p.price_level /\ p.price_level <= priceRange[2].v
    /\ (selectedType = "" \/ \E n \in 1..Len(p.types) : p.types[n] = selectedType)

\* the order-preserving sub-list of data[n..] of the records passing all rules
RECURSIVE PassingFrom(_)
PassingFrom(n) ==
    IF n > Len(data) THEN <<>>
    ELSE (IF PassesAll(data[n]) THEN <<data[n]>> ELSE <<>>) \o PassingFrom(n + 1)

DefaultFilters ==
    search = <<>> /\ ~openNowOnly /\ priceRange = <<Num(0), Num(4)>> /\ selectedType = ""

C7_FetchOnce ==
    /\ (initialData = {} => fetchCount = (IF mounted THEN 1 ELSE 0))
    /\ (initialData # {} => fetchCount = 0 /\ loadPc = "idle" /\ ~loading)

\* C7 witness: no initial data, the request has settled, every control has
\* been changed since, and one request has been issued
C7_Witness ==
    /\ initialData = {} /\ mounted /\ loadPc = "done"
    /\ search # <<>> /\ openNowOnly /\ priceRange # <<Num(0), Num(4)>> /\ selectedType # ""
    /\ fetchCount = 1

\* the request ended in a failure: a non-2xx answer, or no answer at all
LoadFailed == \E res \in loadRes : res.kind = "reject" \/ res.status \notin 200..299

\* C8: loading is true exactly while the request is pending; on success the
\* source list is the answer's places; on every failure the source list is
\* left empty, the failure is logged, and no second request is made.
C8_FetchOutcome ==
    /\ loading <=> (loadPc = "pending")
    /\ (loadPc = "done" /\ ~LoadFailed =>
            \A res \in loadRes : data = res.body.places)
    /\ (loadPc = "done" /\ LoadFailed =>
            data = <<>> /\ clientLog >= 1 /\ fetchCount = 1)

====
